---- MODULE Spec2Model ----
(***************************************************************************)
(* Model of sliders_ui.py: the Settings object that converts between the   *)
(* two stored hardware values (_intensity, _spectrum) and the two computed *)
(* UI values (movement, vibration, both in dB).                            *)
(*                                                                         *)
(* Number representation.  The code works on Python floats; the model      *)
(* works on integers:                                                      *)
(*   - every dB quantity is held in units of 1/Scale dB;                   *)
(*   - an amplitude a > 0 (the value of _intensity, or an argument of its  *)
(*     setter) is held as its level 20*log10(a), in units of 1/Scale dB;   *)
(*     a = 0.0 is AmpZero and any a < 0 is AmpNeg, both below every level. *)
(*     The encoding preserves order, so every comparison of the code       *)
(*     (clip, the safe threshold) is the same comparison on the codes;     *)
(*   - a spectrum value is held in units of 1/SpecUnit.                    *)
(***************************************************************************)
EXTENDS Integers, Sequences, FiniteSets, TLC

VARIABLES
    intensity,  \* Settings._intensity (amplitude code)
    spectrum,   \* Settings._spectrum (units of 1/SpecUnit)
    logger,     \* Settings._logger: TRUE when a callback is registered, FALSE for None
    sink,       \* every string the registered callback has been called with, in order
    last,       \* the most recent call on the object: what it was, on what state, how it ended
    pc,         \* position of each concurrently running setter call
    loc,        \* the local variables mov, vib of each concurrently running setter call
    lock,       \* holder of the external lock around the object (NoThread: free)
    conc        \* the two concurrent calls under way: their arguments, the state they started on

vars == <<intensity, spectrum, logger, sink, last, pc, loc, lock, conc>>

----------------------------------------------------------------------------
(* Units and encodings *)

Scale == 10
SpecUnit == 1000

AmpOne == 0
AmpZero == -100000
AmpNeg == AmpZero - 1

INTENSITY_RANGE == <<AmpZero, AmpOne>>
SPECTRUM_RANGE == <<-SpecUnit, SpecUnit>>
UiLowDb == -20
UiHighDb == 0
UI_RANGE == <<UiLowDb * Scale, UiHighDb * Scale>>

SafeThresholdDb == -60
SafeValueDb == -60
SafeThreshold == SafeThresholdDb * Scale
SafeValue == SafeValueDb * Scale

\* math.pow(10, x / 20.0) raises OverflowError from x = 6165.1 dB on and
\* underflows to 0.0 from x = -6472.2 dB down (IEEE double).
PowOverflowFrom == 61651
PowUnderflowTo == -64722

NoValue == "none"
NoError == "ok"
OverflowError == "OverflowError"

----------------------------------------------------------------------------
(* Bounds of the model *)

Margin == 2
MaxLog == 4

----------------------------------------------------------------------------
(* Module-level helpers of sliders_ui.py *)

ClipNoUpper(value, min, max) ==
    IF value < min THEN min ELSE value

Clip(value, min, max) ==
    LET v1 == IF value < min THEN min ELSE value
    IN IF v1 > max THEN max ELSE v1

\* 20.0 * math.log10(value) of an amplitude code: its level.
Log10x20(value) == value

Safe20Log10Unguarded(value) ==
    [db |-> Log10x20(value), evaluated |-> {value}]

\* Returns the dB value and the set of arguments math.log10 was evaluated on.
Safe20Log10(value) ==
    IF value < SafeThreshold
    THEN [db |-> SafeValue, evaluated |-> {}]
    ELSE [db |-> Log10x20(value), evaluated |-> {value}]

\* Python's round(x, 0): to the nearest whole dB, ties to the even one.
RoundDb(t) ==
    LET q == t \div Scale
        r == t % Scale
    IN Scale * (IF 2 * r < Scale THEN q
                ELSE IF 2 * r > Scale THEN q + 1
                ELSE IF q % 2 = 0 THEN q ELSE q + 1)

\* 20.0 * self._spectrum, in units of 1/Scale dB.
DiffDb(s) == (20 * Scale * s) \div SpecUnit

\* diff_db / 20.0, in units of 1/SpecUnit.
SpectrumOfDiff(diff_db) == (diff_db * SpecUnit) \div (20 * Scale)

\* math.pow(10, upper_db / 20.0) as an amplitude code, or the exception it raises.
Pow10(upper_db) ==
    IF upper_db >= PowOverflowFrom THEN [err |-> OverflowError, value |-> NoValue]
    ELSE IF upper_db <= PowUnderflowTo THEN [err |-> NoError, value |-> AmpZero]
    ELSE [err |-> NoError, value |-> upper_db]

Max(a, b) == IF a >= b THEN a ELSE b

Msg(text, value) == [text |-> text, value |-> value]

----------------------------------------------------------------------------
(* Settings: read properties, as functions of the stored pair *)

MovementOf(i, s) ==
    LET upper_db == Safe20Log10(i).db
        diff_db == DiffDb(s)
        mov == IF diff_db < 0 THEN upper_db ELSE upper_db - diff_db
    IN Clip(RoundDb(mov), UI_RANGE[1], UI_RANGE[2])

VibrationOf(i, s) ==
    LET upper_db == Safe20Log10(i).db
        diff_db == DiffDb(s)
        vib == IF diff_db < 0 THEN upper_db + diff_db ELSE upper_db
    IN Clip(RoundDb(vib), UI_RANGE[1], UI_RANGE[2])

----------------------------------------------------------------------------
(* Settings: write properties.  Each returns the stored pair after the     *)
(* call, the exception that ended it (NoError: returned normally), the     *)
(* strings handed to self.log in order, and the arguments math.log10 was   *)
(* evaluated on while reading the other computed value.                    *)

SetFromMovVibSwapped(mov, vib, i, s) ==
    LET upper_db == Max(mov, vib)
        diff_db == mov - vib
        p == Pow10(upper_db)
    IN IF p.err # NoError
       THEN [intensity |-> i, spectrum |-> s, err |-> p.err, msgs |-> <<>>]
       ELSE LET ni == Clip(p.value, INTENSITY_RANGE[1], INTENSITY_RANGE[2])
                ns == Clip(SpectrumOfDiff(diff_db), SPECTRUM_RANGE[1], SPECTRUM_RANGE[2])
            IN [intensity |-> ni, spectrum |-> ns, err |-> NoError,
                msgs |-> << Msg("  Intensity set to", ni), Msg("  Spectrum set to", ns) >>]

SetFromMovVib(mov, vib, i, s) ==
    LET upper_db == Max(mov, vib)
        diff_db == vib - mov
        p == Pow10(upper_db)
    IN IF p.err # NoError
       THEN [intensity |-> i, spectrum |-> s, err |-> p.err, msgs |-> <<>>]
       ELSE LET ni == Clip(p.value, INTENSITY_RANGE[1], INTENSITY_RANGE[2])
                ns == Clip(SpectrumOfDiff(diff_db), SPECTRUM_RANGE[1], SPECTRUM_RANGE[2])
            IN [intensity |-> ni, spectrum |-> ns, err |-> NoError,
                msgs |-> << Msg("  Intensity set to", ni), Msg("  Spectrum set to", ns) >>]

IntensitySetter(value, i, s) ==
    LET ni == Clip(value, INTENSITY_RANGE[1], INTENSITY_RANGE[2])
    IN [intensity |-> ni, spectrum |-> s, err |-> NoError,
        msgs |-> << Msg("Intensity set to", ni) >>, evaluated |-> {}]

SpectrumSetter(value, i, s) ==
    LET ns == Clip(value, SPECTRUM_RANGE[1], SPECTRUM_RANGE[2])
    IN [intensity |-> i, spectrum |-> ns, err |-> NoError,
        msgs |-> << Msg("Spectrum set to", ns) >>, evaluated |-> {}]

MovementSetter(value, i, s) ==
    LET mov == value
        vib == VibrationOf(i, s)
        r == SetFromMovVib(mov, vib, i, s)
    IN [intensity |-> r.intensity, spectrum |-> r.spectrum, err |-> r.err,
        msgs |-> << Msg("Updating movement to", value) >> \o r.msgs,
        evaluated |-> Safe20Log10(i).evaluated]

VibrationSetter(value, i, s) ==
    LET mov == MovementOf(i, s)
        vib == value
        r == SetFromMovVib(mov, vib, i, s)
    IN [intensity |-> r.intensity, spectrum |-> r.spectrum, err |-> r.err,
        msgs |-> << Msg("Updating vibration to", value) >> \o r.msgs,
        evaluated |-> Safe20Log10(i).evaluated]

----------------------------------------------------------------------------
(* Arguments the calls are made with *)

\* Amplitudes: negative, 0.0, below the safe threshold, the threshold 0.001,
\* between 0.001 and 0.1 (-25.5 dB), 0.1, -6.5 dB, 1.0 and above 1.0.
IntensityArgs ==
    { AmpNeg, AmpZero, SafeThreshold - 10 * Scale, SafeThreshold,
      UI_RANGE[1] - 55, UI_RANGE[1], -65, AmpOne, AmpOne + 6 * Scale }

\* Spectrum values (units of 1/SpecUnit): out of range on both sides, the
\* bounds, values whose difference is a whole dB, a half dB and 5.5 dB.
SpectrumArgs ==
    { -SpecUnit - 500, -SpecUnit, -275, -25, 0, 25, 300, SpecUnit, SpecUnit + 500 }

\* Whole dB values in and around the UI range, one fractional value, and the
\* two values on either side of the OverflowError threshold of math.pow.
WholeDbArgs ==
    { d * Scale : d \in (UiLowDb - Margin) .. (UiHighDb + Margin) }
      \cup { (PowOverflowFrom \div Scale) * Scale, (PowOverflowFrom \div Scale + 1) * Scale }

DbArgs == WholeDbArgs \cup { -125 }

IsWholeDb(x) == x % Scale = 0

----------------------------------------------------------------------------
(* State after construction: Settings.__init__ *)

NoThread == "none"
Threads == {"movement", "vibration"}

NoCall ==
    [op |-> "init", arg |-> NoValue, pre |-> <<AmpOne, 0>>, err |-> NoError,
     ret |-> NoValue, evaluated |-> {}, logging |-> FALSE, logged |-> 0]

IdleConc == [on |-> FALSE, locked |-> FALSE, start |-> <<AmpOne, 0>>, m |-> 0, v |-> 0]

InitObject ==
    /\ intensity = AmpOne
    /\ spectrum = 0
    /\ logger = FALSE
    /\ sink = << >>
    /\ last = NoCall

InitNoThreads ==
    /\ pc = [t \in Threads |-> "idle"]
    /\ loc = [t \in Threads |-> [mov |-> 0, vib |-> 0]]
    /\ lock = NoThread
    /\ conc = IdleConc

Init == InitObject /\ InitNoThreads

----------------------------------------------------------------------------
(* Sequential calls *)

\* Settings.log: the callback is called only when one is registered.
Log(msgs) == IF logger THEN sink \o msgs ELSE sink

\* The sink is kept finite: a call is made only while the longest call's
\* messages still fit.
LogRoom == logger => Len(sink) + 3 <= MaxLog

Setter(op, arg, r) ==
    /\ LogRoom
    /\ intensity' = r.intensity
    /\ spectrum' = r.spectrum
    /\ sink' = Log(r.msgs)
    /\ last' = [op |-> op, arg |-> arg, pre |-> <<intensity, spectrum>>, err |-> r.err,
                ret |-> NoValue, evaluated |-> r.evaluated, logging |-> logger,
                logged |-> Len(sink)]
    /\ UNCHANGED <<logger, pc, loc, lock, conc>>

Getter(op, ret, evaluated) ==
    /\ last' = [op |-> op, arg |-> NoValue, pre |-> <<intensity, spectrum>>, err |-> NoError,
                ret |-> ret, evaluated |-> evaluated, logging |-> logger,
                logged |-> Len(sink)]
    /\ UNCHANGED <<intensity, spectrum, logger, sink, pc, loc, lock, conc>>

SetIntensity(x) == Setter("intensity", x, IntensitySetter(x, intensity, spectrum))

SetSpectrum(x) == Setter("spectrum", x, SpectrumSetter(x, intensity, spectrum))

SetMovement(x) == Setter("movement", x, MovementSetter(x, intensity, spectrum))

SetVibration(x) == Setter("vibration", x, VibrationSetter(x, intensity, spectrum))

GetIntensity == Getter("get_intensity", intensity, {})

GetSpectrum == Getter("get_spectrum", spectrum, {})

GetMovement ==
    Getter("get_movement", MovementOf(intensity, spectrum), Safe20Log10(intensity).evaluated)

GetVibration ==
    Getter("get_vibration", VibrationOf(intensity, spectrum), Safe20Log10(intensity).evaluated)

SetLogger(callback) ==
    /\ logger' = callback
    /\ UNCHANGED <<intensity, spectrum, sink, last, pc, loc, lock, conc>>

Next ==
    \/ \E x \in IntensityArgs : SetIntensity(x)
    \/ \E x \in SpectrumArgs : SetSpectrum(x)
    \/ \E x \in DbArgs : SetMovement(x)
    \/ \E x \in DbArgs : SetVibration(x)
    \/ GetIntensity
    \/ GetSpectrum
    \/ GetMovement
    \/ GetVibration

Spec == Init /\ [][Next]_vars

----------------------------------------------------------------------------
(* Properties of the sequential calls *)

SetterOps == {"intensity", "spectrum", "movement", "vibration"}
DerivedSetterOps == {"movement", "vibration"}
LogReaderOps == {"movement", "vibration", "get_movement", "get_vibration"}

\* The result of calling setter op with argument x on the stored pair (i, s).
Apply(op, x, i, s) ==
    CASE op = "intensity" -> IntensitySetter(x, i, s)
      [] op = "spectrum" -> SpectrumSetter(x, i, s)
      [] op = "movement" -> MovementSetter(x, i, s)
      [] op = "vibration" -> VibrationSetter(x, i, s)

Abs(n) == IF n < 0 THEN -n ELSE n

\* C1: after any sequence of calls to the four setters, with any arguments,
\* the stored intensity is in [0.0, 1.0] and the stored spectrum in [-1.0, 1.0].
C1_RangeInvariant ==
    /\ INTENSITY_RANGE[1] <= intensity /\ intensity <= INTENSITY_RANGE[2]
    /\ SPECTRUM_RANGE[1] <= spectrum /\ spectrum <= SPECTRUM_RANGE[2]

\* A derived setter was called above the UI range and returned: the amplitude
\* it back-solved was above 1.0 and is stored as 1.0.
C1_Witness ==
    /\ last.op = "vibration"
    /\ last.err = NoError
    /\ last.arg > UI_RANGE[2]
    /\ intensity = AmpOne
    /\ spectrum > 0

\* C2: movement = x leaves the vibration reading as it was before the call,
\* and vibration = x leaves the movement reading as it was, for every whole
\* dB argument x, in or out of the UI range.
C2_OtherDerivedHeld ==
    /\ (last.op = "movement" /\ IsWholeDb(last.arg))
          => VibrationOf(intensity, spectrum) = VibrationOf(last.pre[1], last.pre[2])
    /\ (last.op = "vibration" /\ IsWholeDb(last.arg))
          => MovementOf(intensity, spectrum) = MovementOf(last.pre[1], last.pre[2])

\* C3: after movement = x the movement reading is clip(x, -20, 0), and after
\* vibration = x the vibration reading is clip(x, -20, 0), for every whole
\* dB argument x.
C3_ReadsBackClipped ==
    /\ (last.op = "movement" /\ IsWholeDb(last.arg))
          => MovementOf(intensity, spectrum) = Clip(last.arg, UI_RANGE[1], UI_RANGE[2])
    /\ (last.op = "vibration" /\ IsWholeDb(last.arg))
          => VibrationOf(intensity, spectrum) = Clip(last.arg, UI_RANGE[1], UI_RANGE[2])

\* C4: calling the setter that was just called once more, with the same
\* argument, leaves the stored pair (and so both readings) as it is.
C4_Idempotent ==
    last.op \in SetterOps =>
        LET r == Apply(last.op, last.arg, intensity, spectrum)
        IN /\ <<r.intensity, r.spectrum>> = <<intensity, spectrum>>
           /\ MovementOf(r.intensity, r.spectrum) = MovementOf(intensity, spectrum)
           /\ VibrationOf(r.intensity, r.spectrum) = VibrationOf(intensity, spectrum)

\* C5: after movement = m, reading vib0 = vibration and setting vibration =
\* vib0 leaves the movement reading within 1 dB of what it was and the
\* vibration reading unchanged.
C5_RoundTrip ==
    last.op = "movement" =>
        LET vib0 == VibrationOf(intensity, spectrum)
            r == VibrationSetter(vib0, intensity, spectrum)
        IN /\ r.err = NoError
           /\ Abs(MovementOf(r.intensity, r.spectrum) - MovementOf(intensity, spectrum)) <= Scale
           /\ VibrationOf(r.intensity, r.spectrum) = vib0

\* The round trip was run from the constructed object: movement = m, then
\* vibration set to the value just read.  The readings are the same and the
\* stored pair is not.
C5_Witness ==
    /\ last.op = "vibration"
    /\ last.err = NoError
    /\ last.arg = VibrationOf(last.pre[1], last.pre[2])
    /\ \E m \in DbArgs :
          LET r == MovementSetter(m, AmpOne, 0)
          IN r.err = NoError /\ <<r.intensity, r.spectrum>> = last.pre
    /\ MovementOf(intensity, spectrum) = MovementOf(last.pre[1], last.pre[2])
    /\ VibrationOf(intensity, spectrum) = last.arg
    /\ <<intensity, spectrum>> # last.pre

\* C6: after intensity = 0, with any stored spectrum, movement and vibration
\* both read the safe floor clipped to the UI range (-20 dB), and no call
\* evaluates the logarithm on an amplitude below the safe threshold.
C6_NearZeroSafe ==
    /\ (last.op = "intensity" /\ last.arg = AmpZero) =>
          /\ MovementOf(intensity, spectrum) = Clip(SafeValue, UI_RANGE[1], UI_RANGE[2])
          /\ VibrationOf(intensity, spectrum) = Clip(SafeValue, UI_RANGE[1], UI_RANGE[2])
    /\ (last.op \in {"get_movement", "get_vibration"} /\ intensity = AmpZero) =>
          last.ret = UI_RANGE[1]
    /\ last.op \in LogReaderOps =>
          \A a \in last.evaluated : a >= SafeThreshold

\* movement was read on an object whose intensity is 0.0 and whose spectrum
\* is not neutral: it read -20 dB and the logarithm was not evaluated.
C6_Witness ==
    /\ last.op = "get_movement"
    /\ intensity = AmpZero
    /\ spectrum # 0
    /\ last.ret = UI_RANGE[1]
    /\ last.evaluated = {}

\* C8: every call of a setter or getter, with any argument, returns normally.
C8_NoCallFails == last.err = NoError

\* C10: right after a derived setter call, with any argument, the stored
\* intensity is in [0.1, 1.0] (its level in [-20, 0] dB).
C10_DerivedSetterIntensityFloor ==
    last.op \in DerivedSetterOps =>
        UI_RANGE[1] <= intensity /\ intensity <= AmpOne

----------------------------------------------------------------------------
(* Calls with a change logger.  The constructor leaves no logger           *)
(* (set_logger(None), the initial state); prep_ui registers ui_log.push     *)
(* once and nothing removes it afterwards.                                  *)

LogIntensityArgs == { AmpZero, -65, AmpOne + 6 * Scale }

LogSpectrumArgs == { -SpecUnit - 500, 300 }

LogDbArgs == { -5 * Scale, 1 * Scale, (PowOverflowFrom \div Scale + 1) * Scale }

NextLog ==
    \/ SetLogger(TRUE)
    \/ \E x \in LogIntensityArgs : SetIntensity(x)
    \/ \E x \in LogSpectrumArgs : SetSpectrum(x)
    \/ \E x \in LogDbArgs : SetMovement(x)
    \/ \E x \in LogDbArgs : SetVibration(x)
    \/ GetIntensity
    \/ GetSpectrum
    \/ GetMovement
    \/ GetVibration

SpecLog == Init /\ [][NextLog]_vars

\* The strings the sink received during the most recent call.
Emitted == SubSeq(sink, last.logged + 1, Len(sink))

\* C7: with a logger registered, a direct setter call hands the sink exactly
\* one message carrying the stored (clipped) value; a derived setter call
\* hands it exactly three, "Updating ... to x" with the raw x, then the
\* intensity message, then the spectrum message, both carrying the stored
\* values; a getter hands it nothing; with no logger nothing is emitted and
\* the stored pair is the one the same call leaves with a logger.
C7_LogProtocol ==
    /\ last.op \in SetterOps =>
          LET r == Apply(last.op, last.arg, last.pre[1], last.pre[2])
          IN <<intensity, spectrum>> = <<r.intensity, r.spectrum>>
    /\ ~last.logging => Emitted = << >>
    /\ last.op \notin SetterOps => Emitted = << >>
    /\ (last.logging /\ last.op = "intensity") =>
          Emitted = << Msg("Intensity set to", intensity) >>
    /\ (last.logging /\ last.op = "spectrum") =>
          Emitted = << Msg("Spectrum set to", spectrum) >>
    /\ (last.logging /\ last.op = "movement") =>
          Emitted = << Msg("Updating movement to", last.arg),
                       Msg("  Intensity set to", intensity),
                       Msg("  Spectrum set to", spectrum) >>
    /\ (last.logging /\ last.op = "vibration") =>
          Emitted = << Msg("Updating vibration to", last.arg),
                       Msg("  Intensity set to", intensity),
                       Msg("  Spectrum set to", spectrum) >>

----------------------------------------------------------------------------
(* Two setter calls running concurrently on one Settings object: thread    *)
(* "movement" runs settings.movement = conc.m, thread "vibration" runs     *)
(* settings.vibration = conc.v.  A call is three steps: it reads the other *)
(* computed value, writes _intensity, writes _spectrum.  With conc.locked  *)
(* each call runs inside one lock around the object.                       *)

ConcIntensityArgs == { AmpZero, -65, AmpOne }

ConcSpectrumArgs == { -275, 0, 300 }

ConcDbArgs ==
    { -15 * Scale, -10 * Scale, -5 * Scale, 0, 1 * Scale,
      (PowOverflowFrom \div Scale + 1) * Scale }

\* Stored pairs the calls start on: the constructed object after
\* settings.intensity = x and settings.spectrum = y.
ConcStarts ==
    { LET a == IntensitySetter(x, AmpOne, 0)
          b == SpectrumSetter(y, a.intensity, a.spectrum)
      IN <<b.intensity, b.spectrum>> : x \in ConcIntensityArgs, y \in ConcSpectrumArgs }

InitConc ==
    /\ logger = FALSE
    /\ sink = << >>
    /\ last = NoCall
    /\ loc = [t \in Threads |-> [mov |-> 0, vib |-> 0]]
    /\ lock = NoThread
    /\ \E start \in ConcStarts, m \in ConcDbArgs, v \in ConcDbArgs, locked \in BOOLEAN :
          /\ intensity = start[1]
          /\ spectrum = start[2]
          /\ conc = [on |-> TRUE, locked |-> locked, start |-> start, m |-> m, v |-> v]
          /\ pc = [t \in Threads |-> IF locked THEN "acquire" ELSE "read"]

\* Where a call goes when it ends, normally or with an exception.
Leave == IF conc.locked THEN "release" ELSE "done"

TAcquire(t) ==
    /\ pc[t] = "acquire"
    /\ lock = NoThread
    /\ lock' = t
    /\ pc' = [pc EXCEPT ![t] = "read"]
    /\ UNCHANGED <<intensity, spectrum, logger, sink, last, loc, conc>>

TRelease(t) ==
    /\ pc[t] = "release"
    /\ lock' = NoThread
    /\ pc' = [pc EXCEPT ![t] = "done"]
    /\ UNCHANGED <<intensity, spectrum, logger, sink, last, loc, conc>>

\* The setter's body up to the call of _set_from_mov_vib.
TRead(t) ==
    /\ pc[t] = "read"
    /\ loc' = [loc EXCEPT ![t] =
                  IF t = "movement"
                  THEN [mov |-> conc.m, vib |-> VibrationOf(intensity, spectrum)]
                  ELSE [mov |-> MovementOf(intensity, spectrum), vib |-> conc.v]]
    /\ pc' = [pc EXCEPT ![t] = "write_intensity"]
    /\ UNCHANGED <<intensity, spectrum, logger, sink, last, lock, conc>>

\* _set_from_mov_vib up to the assignment of self._intensity; math.pow may
\* raise, which ends the call before anything is written.
TWriteIntensity(t) ==
    /\ pc[t] = "write_intensity"
    /\ LET upper_db == Max(loc[t].mov, loc[t].vib)
           p == Pow10(upper_db)
       IN IF p.err # NoError
          THEN /\ pc' = [pc EXCEPT ![t] = Leave]
               /\ UNCHANGED intensity
          ELSE /\ intensity' = Clip(p.value, INTENSITY_RANGE[1], INTENSITY_RANGE[2])
               /\ pc' = [pc EXCEPT ![t] = "write_spectrum"]
    /\ UNCHANGED <<spectrum, logger, sink, last, loc, lock, conc>>

\* As TWriteSpectrum, but the other computed value is read again here, after
\* _intensity was written.
TWriteSpectrumRereads(t) ==
    /\ pc[t] = "write_spectrum"
    /\ LET mov == IF t = "movement" THEN loc[t].mov ELSE MovementOf(intensity, spectrum)
           vib == IF t = "movement" THEN VibrationOf(intensity, spectrum) ELSE loc[t].vib
           diff_db == vib - mov
       IN spectrum' = Clip(SpectrumOfDiff(diff_db), SPECTRUM_RANGE[1], SPECTRUM_RANGE[2])
    /\ pc' = [pc EXCEPT ![t] = Leave]
    /\ UNCHANGED <<intensity, logger, sink, last, loc, lock, conc>>

\* The assignment of self._spectrum, which ends the call.
TWriteSpectrum(t) ==
    /\ pc[t] = "write_spectrum"
    /\ LET diff_db == loc[t].vib - loc[t].mov
       IN spectrum' = Clip(SpectrumOfDiff(diff_db), SPECTRUM_RANGE[1], SPECTRUM_RANGE[2])
    /\ pc' = [pc EXCEPT ![t] = Leave]
    /\ UNCHANGED <<intensity, logger, sink, last, loc, lock, conc>>

NextConc ==
    \E t \in Threads :
        \/ TAcquire(t)
        \/ TRead(t)
        \/ TWriteIntensity(t)
        \/ TWriteSpectrum(t)
        \/ TRelease(t)

SpecConc == InitConc /\ [][NextConc]_vars

\* The stored pairs the two calls leave when run one after the other, in
\* either order, from the pair they started on.
SerialResults ==
    LET a1 == MovementSetter(conc.m, conc.start[1], conc.start[2])
        a2 == VibrationSetter(conc.v, a1.intensity, a1.spectrum)
        b1 == VibrationSetter(conc.v, conc.start[1], conc.start[2])
        b2 == MovementSetter(conc.m, b1.intensity, b1.spectrum)
    IN { <<a2.intensity, a2.spectrum>>, <<b2.intensity, b2.spectrum>> }

BothDone == \A t \in Threads : pc[t] = "done"

\* C9: when each of the two concurrent setter calls runs under one lock
\* around the object, the stored pair they leave is the one some serial order
\* of the two calls leaves; without the lock a pair that no serial order
\* leaves is reachable (C9_Witness).
C9_LockedCallsSerialize ==
    (conc.on /\ conc.locked /\ BothDone) => <<intensity, spectrum>> \in SerialResults

\* Both calls ran to their end without a lock and left a stored pair that
\* neither serial order of the two calls leaves.
C9_Witness ==
    /\ conc.on
    /\ ~conc.locked
    /\ BothDone
    /\ <<intensity, spectrum>> \notin SerialResults

====
